---- MODULE Spec2Model ----
(***************************************************************************)
(* Geocoin Carrier (RahaZaman/cmpm-121-demo-3): the cache lifecycle of the *)
(* final game module (player state, CacheZone objects, the cache registry, *)
(* the popups bound to zones, regeneration on movement, reset, and the     *)
(* snapshot kept in localStorage), and of the earlier revision of the      *)
(* module that mints coins through coinIdCounter and keeps a memento in    *)
(* each Cache.  A behaviour runs one of the two, named by revision.        *)
(*                                                                         *)
(* Units.  Latitudes and longitudes are integers counting half grid steps  *)
(* (5e-5 degrees), so that GRID_STEP = 1e-4 degrees is 2 and a position in *)
(* the middle of a cell is representable.  Math.random() values are        *)
(* integers counting hundredths, so SPAWN_PROBABILITY = 0.02 is 2.         *)
(***************************************************************************)
EXTENDS Integers, Sequences, FiniteSets, TLC

\* ------------------------------------------------------------------------
\* Bounds of the model
\* ------------------------------------------------------------------------
\* most CacheZone objects constructed between two page loads
MaxZones == 2
\* longest player trail (moves between two resets)
MaxMoves == 2
\* the movement buttons keep the marker north and east of the origin, at most
\* MaxCoord half steps away from it (latitude plus longitude)
MaxCoord == 2
\* the player stops collecting when the score and the carried coins would
\* add up to more than MaxScore
MaxScore == 2
\* the player of the earlier revision stops depositing when coinIdCounter
\* would exceed MaxSerial
MaxSerial == 3

\* values Math.random() returns, in hundredths
RandomValues == {0, 25}
\* one unit of probability: Math.random() < 1.00 always holds
RandomScale == 100
\* cells for which Math.random() may return any of RandomValues; for every
\* other cell it returns the largest of them
SpawnCells == {<<0, 0>>, <<4, 0>>}
\* positions the geolocation watch reports
GeoPositions == {<<-1, -1>>}

\* ------------------------------------------------------------------------
\* Program constants
\* ------------------------------------------------------------------------
GRID_STEP == 2
CACHE_ZONE_RADIUS == 3
SPAWN_PROBABILITY == 2
INITIAL_POSITION == <<0, 0>>
INITIAL_PLAYER_POS == INITIAL_POSITION
MOVE_DELTA == GRID_STEP

\* the earlier revision
GRID_SIZE == 2
CACHE_RADIUS == 8
SPAWN_RATE == 10
NULL_ISLAND == <<0, 0>>
PLAYER_START == NULL_ISLAND
moveStep == GRID_SIZE

NoSnapshot == [saved |-> FALSE]
\* the field memento of a Cache no handler has written
NoMemento == [defined |-> FALSE]

\* the revision of the module that runs
Revisions == {"final", "earlier"}

VARIABLES
  revision,        \* the revision of the module the page has loaded
  totalScore,      \* let totalScore
  collectedCoins,  \* let collectedCoins
  playerTrail,     \* let playerTrail: sequence of <<lat, lng>>
  totalMoves,      \* let totalMoves
  playerIcon,      \* the marker's position <<lat, lng>>
  zones,           \* heap of CacheZone objects; the index is the identity
  caches,          \* const caches: cell key -> index into zones
  popups,          \* zones some rectangle on the map has a popup bound to
  locationCache,   \* positionFactory.locationCache: cell key -> <<lat, lng>>
  gameState,       \* localStorage item "gameState", or NoSnapshot
  watchId,         \* playerTracking.watchId: 0 is null
  \* the earlier revision
  totalPoints,     \* let totalPoints
  coinCount,       \* let coinCount
  coinIdCounter,   \* let coinIdCounter
  playerMarker,    \* the marker's position <<lat, lng>>
  cacheObjects,    \* heap of Cache objects; the index is the identity
  cacheMap,        \* const cacheMap: cell key -> index into cacheObjects
  rectangles,      \* Cache objects a Rectangle layer of the map is bound to
  locationFactory  \* locationFactory.locationCache: cell key -> <<lat, lng>>

finalVars == <<totalScore, collectedCoins, playerTrail, totalMoves,
               playerIcon, zones, caches, popups, locationCache, gameState,
               watchId>>
earlierVars == <<totalPoints, coinCount, coinIdCounter, playerMarker,
                 cacheObjects, cacheMap, rectangles, locationFactory>>
vars == <<revision, finalVars, earlierVars>>

\* a step of the final revision: the variables of the earlier one stay
FinalStep == revision = "final" /\ UNCHANGED <<revision, earlierVars>>
\* a step of the earlier revision
EarlierStep == revision = "earlier" /\ UNCHANGED <<revision, finalVars>>

EmptyMap == [c \in {} |-> 0]

\* ------------------------------------------------------------------------
\* Pure helpers
\* ------------------------------------------------------------------------
\* the key `${x},${y}` of a cell; decimal formatting is one to one on integers
cacheKey(x, y) == <<x, y>>

\* getPosition with x and y exchanged in the coordinate it computes
getPosition_swapped(lc, x, y) ==
  IF cacheKey(x, y) \in DOMAIN lc
    THEN lc
    ELSE lc @@ (cacheKey(x, y) :>
                  <<INITIAL_POSITION[1] + y * GRID_STEP,
                    INITIAL_POSITION[2] + x * GRID_STEP>>)

\* PositionFactory.getPosition: the cache after a lookup of (x, y)
getPosition(lc, x, y) ==
  IF cacheKey(x, y) \in DOMAIN lc
    THEN lc
    ELSE lc @@ (cacheKey(x, y) :>
                  <<INITIAL_POSITION[1] + x * GRID_STEP,
                    INITIAL_POSITION[2] + y * GRID_STEP>>)

\* generateCoins stamping the coins with the transposed cell
generateCoins_transposed(x, y, amount) ==
  [k \in 1..amount |-> [x |-> y, y |-> x, id |-> k - 1]]

\* generateCoins producing one coin too few
generateCoins_short(x, y, amount) ==
  [k \in 1..(amount - 1) |-> [x |-> x, y |-> y, id |-> k - 1]]

\* generateCoins: the id of a coin is its index in the array of this call
generateCoins(x, y, amount) ==
  [k \in 1..amount |-> [x |-> x, y |-> y, id |-> k - 1]]

\* the roll without the + 1
rollCoins_zeroBased(r) == (r * 5) \div RandomScale

\* Math.floor(Math.random() * 5) + 1 for the random value r
rollCoins(r) == ((r * 5) \div RandomScale) + 1

\* new CacheZone(x, y), r being the value Math.random() returns
CacheZone(x, y, r) ==
  [x |-> x, y |-> y, storedCoins |-> generateCoins(x, y, rollCoins(r))]

\* get coins()
coins(zone) == Len(zone.storedCoins)

\* ------------------------------------------------------------------------
\* createCache and the regeneration pass, on the record
\*   w = [zones, caches, popups, locationCache]
\* ------------------------------------------------------------------------
World == [zones |-> zones, caches |-> caches, popups |-> popups,
          locationCache |-> locationCache]

\* createCache that rolls the coins of a registered zone again
createCache_reroll(w, x, y, r) ==
  LET key == cacheKey(x, y)
      hit == key \in DOMAIN w.caches
      zs  == IF hit THEN [w.zones EXCEPT ![w.caches[key]] = CacheZone(x, y, r)]
                    ELSE Append(w.zones, CacheZone(x, y, r))
      cs  == IF hit THEN w.caches ELSE w.caches @@ (key :> Len(zs))
      lc  == getPosition(getPosition(w.locationCache, x, y), x + 1, y + 1)
  IN  [zones |-> zs, caches |-> cs,
       popups |-> w.popups \cup {cs[key]},
       locationCache |-> lc]

\* createCache that never looks the cell up in the registry
createCache_noLookup(w, x, y, r) ==
  LET key == cacheKey(x, y)
      zs  == Append(w.zones, CacheZone(x, y, r))
      cs  == [k \in DOMAIN w.caches \cup {key} |->
                IF k = key THEN Len(zs) ELSE w.caches[k]]
      lc  == getPosition(getPosition(w.locationCache, x, y), x + 1, y + 1)
  IN  [zones |-> zs, caches |-> cs,
       popups |-> w.popups \cup {cs[key]},
       locationCache |-> lc]

\* createCache(x, y); r is consumed by the constructor when a zone is built
createCache(w, x, y, r) ==
  LET key == cacheKey(x, y)
      hit == key \in DOMAIN w.caches
      zs  == IF hit THEN w.zones ELSE Append(w.zones, CacheZone(x, y, r))
      cs  == IF hit THEN w.caches ELSE w.caches @@ (key :> Len(zs))
      lc  == getPosition(getPosition(w.locationCache, x, y), x + 1, y + 1)
  IN  [zones |-> zs, caches |-> cs,
       popups |-> w.popups \cup {cs[key]},
       locationCache |-> lc]

\* Math.floor((lat - INITIAL_POSITION.lat) / GRID_STEP), same for lng
cellOf(pos) ==
  <<(pos[1] - INITIAL_POSITION[1]) \div GRID_STEP,
    (pos[2] - INITIAL_POSITION[2]) \div GRID_STEP>>

\* the outer loop running from playerX - R + 1 to playerX + R + 1
loopCell_shifted(player, R, k) ==
  <<player[1] - R + 1 + ((k - 1) \div (2 * R + 1)),
    player[2] - R + ((k - 1) % (2 * R + 1))>>

\* the k-th cell the two nested loops visit (x outer, y inner, ascending)
loopCell(player, R, k) ==
  <<player[1] - R + ((k - 1) \div (2 * R + 1)),
    player[2] - R + ((k - 1) % (2 * R + 1))>>

\* the loops with < in place of <= in the inner test of the last row
loopSeq_skipLast(player, R) ==
  [k \in 1..((2 * R + 1) * (2 * R + 1) - 1) |-> loopCell(player, R, k)]

\* the cells the two loops visit, in the order they visit them
loopSeq(player, R) ==
  [k \in 1..((2 * R + 1) * (2 * R + 1)) |-> loopCell(player, R, k)]

\* the same cells as a set
loopCells(player, R) ==
  {loopCell(player, R, k) : k \in 1..((2 * R + 1) * (2 * R + 1))}

\* ------------------------------------------------------------------------
\* The values Math.random() returns during one pass
\*   rnd = [draw |-> the value in the spawn test, per cell of SpawnCells,
\*          roll |-> the value the CacheZone constructor consumes, per cell
\*                   of SpawnCells that gets a new zone]
\* For a cell outside SpawnCells both values are HighestDraw.
\* ------------------------------------------------------------------------
HighestDraw == CHOOSE r \in RandomValues : \A q \in RandomValues : q <= r

spawnDraw(rnd, c) ==
  IF c \in DOMAIN rnd.draw THEN rnd.draw[c] ELSE HighestDraw

rollDraw(rnd, c) ==
  IF c \in DOMAIN rnd.roll THEN rnd.roll[c] ELSE HighestDraw

\* the outcomes of the draws of one pass over the cells cs with probability p
\* that construct no more than budget zones
Randoms(w, cs, p, budget) ==
  LET others == IF HighestDraw < p THEN cs \ SpawnCells ELSE {} IN
  UNION {
    LET fresh == {c \in DOMAIN d : d[c] < p} \ DOMAIN w.caches IN
    IF Cardinality(fresh) + Cardinality(others \ DOMAIN w.caches) > budget
      THEN {}
      ELSE {[draw |-> d, roll |-> f] : f \in [fresh -> RandomValues]}
    : d \in [cs \cap SpawnCells -> RandomValues]}

RECURSIVE createEach(_, _, _)
\* createCache for the cells of the sequence cells, in order
createEach(w, cells, rnd) ==
  IF cells = <<>>
    THEN w
    ELSE createEach(createCache(w, Head(cells)[1], Head(cells)[2],
                                rollDraw(rnd, Head(cells))),
                    Tail(cells), rnd)

\* regenerateNearbyCaches, with CACHE_ZONE_RADIUS and SPAWN_PROBABILITY as the
\* parameters R and p: of the cells the loops visit, those whose draw is below
\* p get createCache, in the order of the visit
regenerateNearbyCaches(w, playerPosition, R, p, rnd) ==
  createEach(w,
             SelectSeq(loopSeq(cellOf(playerPosition), R),
                       LAMBDA c : spawnDraw(rnd, c) < p),
             rnd)

\* ------------------------------------------------------------------------
\* Initial state: the module has loaded with nothing in localStorage
\* ------------------------------------------------------------------------
Init ==
  /\ revision \in Revisions
  /\ totalPoints = 0
  /\ coinCount = 0
  /\ coinIdCounter = 0
  /\ playerMarker = PLAYER_START
  /\ cacheObjects = <<>>
  /\ cacheMap = EmptyMap
  /\ rectangles = {}
  /\ locationFactory = EmptyMap
  /\ totalScore = 0
  /\ collectedCoins = 0
  /\ playerTrail = <<>>
  /\ totalMoves = 0
  /\ playerIcon = INITIAL_PLAYER_POS
  /\ zones = <<>>
  /\ caches = EmptyMap
  /\ popups = {}
  /\ locationCache = EmptyMap
  /\ gameState = NoSnapshot
  /\ watchId = 0

\* ------------------------------------------------------------------------
\* Persistence
\* ------------------------------------------------------------------------
\* LatLng.toJSON as the module uses it: the object {lat, lng}
toJSON(position) == [lat |-> position[1], lng |-> position[2]]

\* leaflet.latLng(position.lat, position.lng)
latLng(position) == <<position.lat, position.lng>>

\* the object saveGameProgress stringifies, after the assignments of the
\* calling handler
saveGameProgress(score, carried, moves, trail) ==
  [saved |-> TRUE, totalScore |-> score, collectedCoins |-> carried,
   totalMoves |-> moves,
   playerTrail |-> [k \in 1..Len(trail) |-> toJSON(trail[k])]]

\* ------------------------------------------------------------------------
\* Movement
\* ------------------------------------------------------------------------
InBounds(pos) ==
  /\ pos[1] >= 0 /\ pos[2] >= 0
  /\ pos[1] + pos[2] <= MaxCoord

\* movePlayerTo in a build with radius R and spawn probability p, while the
\* pass constructs at most budget zones
movePlayerWith(latitude, longitude, R, p, budget) ==
  LET newPosition == <<latitude, longitude>> IN
  /\ FinalStep
  /\ Len(playerTrail) < MaxMoves
  /\ \E rnd \in Randoms(World, loopCells(cellOf(newPosition), R), p, budget) :
       LET w == regenerateNearbyCaches(World, newPosition, R, p, rnd) IN
       /\ playerIcon' = newPosition
       /\ playerTrail' = Append(playerTrail, newPosition)
       /\ totalMoves' = totalMoves + 1
       /\ zones' = w.zones
       /\ caches' = w.caches
       /\ popups' = w.popups
       /\ locationCache' = w.locationCache
       /\ gameState' = saveGameProgress(totalScore, collectedCoins,
                                        totalMoves + 1,
                                        Append(playerTrail, newPosition))
       /\ UNCHANGED <<totalScore, collectedCoins, watchId>>

\* movePlayerTo calling saveGameProgress first
movePlayerTo_saveFirst(latitude, longitude) ==
  LET newPosition == <<latitude, longitude>> IN
  /\ FinalStep
  /\ Len(playerTrail) < MaxMoves
  /\ \E rnd \in Randoms(World,
                        loopCells(cellOf(newPosition), CACHE_ZONE_RADIUS),
                        SPAWN_PROBABILITY, MaxZones - Len(zones)) :
       LET w == regenerateNearbyCaches(World, newPosition, CACHE_ZONE_RADIUS,
                                       SPAWN_PROBABILITY, rnd) IN
       /\ playerIcon' = newPosition
       /\ playerTrail' = Append(playerTrail, newPosition)
       /\ totalMoves' = totalMoves + 1
       /\ zones' = w.zones
       /\ caches' = w.caches
       /\ popups' = w.popups
       /\ locationCache' = w.locationCache
       /\ gameState' = saveGameProgress(totalScore, collectedCoins,
                                        totalMoves, playerTrail)
       /\ UNCHANGED <<totalScore, collectedCoins, watchId>>

movePlayerTo(latitude, longitude) ==
  movePlayerWith(latitude, longitude, CACHE_ZONE_RADIUS, SPAWN_PROBABILITY,
                 MaxZones - Len(zones))

MoveNorth ==
  /\ InBounds(<<playerIcon[1] + MOVE_DELTA, playerIcon[2]>>)
  /\ movePlayerTo(playerIcon[1] + MOVE_DELTA, playerIcon[2])
MoveSouth ==
  /\ InBounds(<<playerIcon[1] - MOVE_DELTA, playerIcon[2]>>)
  /\ movePlayerTo(playerIcon[1] - MOVE_DELTA, playerIcon[2])
MoveWest ==
  /\ InBounds(<<playerIcon[1], playerIcon[2] - MOVE_DELTA>>)
  /\ movePlayerTo(playerIcon[1], playerIcon[2] - MOVE_DELTA)
MoveEast ==
  /\ InBounds(<<playerIcon[1], playerIcon[2] + MOVE_DELTA>>)
  /\ movePlayerTo(playerIcon[1], playerIcon[2] + MOVE_DELTA)

\* ------------------------------------------------------------------------
\* Geolocation
\* ------------------------------------------------------------------------
\* the "sensor" button.  granted: navigator.geolocation exists and the user
\* confirms; watchPosition then returns a watch id, 1 here
ToggleSensor ==
  /\ FinalStep
  /\ \E granted \in BOOLEAN :
       watchId' = IF watchId # 0 THEN 0
                  ELSE IF granted THEN 1 ELSE watchId
  /\ UNCHANGED <<totalScore, collectedCoins, playerTrail, totalMoves,
                 playerIcon, zones, caches, popups, locationCache, gameState>>

\* PlayerTracking.handlePositionUpdate, called by the watch while it is set
handlePositionUpdate ==
  /\ watchId # 0
  /\ \E position \in GeoPositions : movePlayerTo(position[1], position[2])

\* an error callback that asks for a new watch
errorCallback_restart(w) == (w % 2) + 1

\* the error callback of watchPosition, (error) => console.error(...): the
\* watch id afterwards
errorCallback(w) == w

\* the watch reports an error (permission denied, signal lost)
geolocationError ==
  /\ FinalStep
  /\ watchId # 0
  /\ watchId' = errorCallback(watchId)
  /\ UNCHANGED <<totalScore, collectedCoins, playerTrail, totalMoves,
                 playerIcon, zones, caches, popups, locationCache, gameState>>

\* ------------------------------------------------------------------------
\* Popup handlers of a rectangle bound to the zone object z
\* ------------------------------------------------------------------------
\* retrieveCoins that returns the count and leaves the coins in the zone
retrieveCoins_keep(zone) ==
  [zone |-> zone, collected |-> Len(zone.storedCoins)]

\* CacheZone.retrieveCoins: the zone afterwards and the number returned
retrieveCoins(zone) ==
  [zone |-> [zone EXCEPT !.storedCoins = <<>>],
   collected |-> Len(zone.storedCoins)]

\* addCoins that replaces the stored coins
addCoins_overwrite(zone, newCoins) ==
  [zone EXCEPT !.storedCoins = newCoins]

\* CacheZone.addCoins
addCoins(zone, newCoins) ==
  [zone EXCEPT !.storedCoins = zone.storedCoins \o newCoins]

\* the three variables the popup handlers write
Game == [totalScore |-> totalScore, collectedCoins |-> collectedCoins,
         zones |-> zones]

\* the click handler of #collectCoins in a popup bound to zone z
collectHandler(g, z) ==
  IF coins(g.zones[z]) > 0
    THEN LET r == retrieveCoins(g.zones[z]) IN
         [g EXCEPT !.collectedCoins = g.collectedCoins + r.collected,
                   !.zones[z] = r.zone]
    ELSE g

\* the deposit handler without collectedCoins = 0
depositHandler_keepCarried(g, z) ==
  IF g.collectedCoins > 0
    THEN [g EXCEPT !.zones[z] =
                      addCoins(g.zones[z],
                               generateCoins(g.zones[z].x, g.zones[z].y,
                                             g.collectedCoins)),
                   !.totalScore = g.totalScore + g.collectedCoins]
    ELSE g

\* the click handler of #depositCoins in a popup bound to zone z
depositHandler(g, z) ==
  IF g.collectedCoins > 0
    THEN [g EXCEPT !.zones[z] =
                      addCoins(g.zones[z],
                               generateCoins(g.zones[z].x, g.zones[z].y,
                                             g.collectedCoins)),
                   !.totalScore = g.totalScore + g.collectedCoins,
                   !.collectedCoins = 0]
    ELSE g

collectCoins(z) ==
  /\ FinalStep
  /\ z \in popups
  /\ totalScore + collectedCoins + coins(zones[z]) <= MaxScore
  /\ LET g == collectHandler(Game, z) IN
       /\ totalScore' = g.totalScore
       /\ collectedCoins' = g.collectedCoins
       /\ zones' = g.zones
  /\ UNCHANGED <<playerTrail, totalMoves, playerIcon, caches, popups,
                 locationCache, gameState, watchId>>

depositCoins(z) ==
  /\ FinalStep
  /\ z \in popups
  /\ LET g == depositHandler(Game, z) IN
       /\ totalScore' = g.totalScore
       /\ collectedCoins' = g.collectedCoins
       /\ zones' = g.zones
  /\ UNCHANGED <<playerTrail, totalMoves, playerIcon, caches, popups,
                 locationCache, gameState, watchId>>

CollectCoins == \E z \in popups : collectCoins(z)
DepositCoins == \E z \in popups : depositCoins(z)

\* ------------------------------------------------------------------------
\* Reset and page load
\* ------------------------------------------------------------------------
\* the "resetGame" button; consent is the answer to confirm()
resetGame(consent) ==
  IF consent
    THEN /\ FinalStep
         /\ totalScore' = 0
         /\ collectedCoins' = 0
         /\ totalMoves' = 0
         /\ playerTrail' = <<>>
         /\ caches' = EmptyMap
         /\ gameState' = NoSnapshot
         /\ UNCHANGED <<playerIcon, zones, popups, locationCache, watchId>>
    ELSE revision = "final" /\ UNCHANGED vars

ResetGame == \E consent \in BOOLEAN : resetGame(consent)

\* loadSavedGame that does not restore the move count
loadSavedGame_noMoves(data) ==
  IF data.saved
    THEN [totalScore |-> data.totalScore,
          collectedCoins |-> data.collectedCoins,
          totalMoves |-> 0,
          playerTrail |-> [k \in 1..Len(data.playerTrail) |->
                             latLng(data.playerTrail[k])]]
    ELSE [totalScore |-> 0, collectedCoins |-> 0, totalMoves |-> 0,
          playerTrail |-> <<>>]

\* loadSavedGame: the player state after it ran on the item data, starting
\* from the values the module initialises
loadSavedGame(data) ==
  IF data.saved
    THEN [totalScore |-> data.totalScore,
          collectedCoins |-> data.collectedCoins,
          totalMoves |-> data.totalMoves,
          playerTrail |-> [k \in 1..Len(data.playerTrail) |->
                             latLng(data.playerTrail[k])]]
    ELSE [totalScore |-> 0, collectedCoins |-> 0, totalMoves |-> 0,
          playerTrail |-> <<>>]

\* the page is loaded again: the module starts over (no zone, no rectangle,
\* an empty position factory, no watch) and runs loadSavedGame
Reload ==
  LET loaded == loadSavedGame(gameState) IN
  /\ FinalStep
  /\ totalScore' = loaded.totalScore
  /\ collectedCoins' = loaded.collectedCoins
  /\ totalMoves' = loaded.totalMoves
  /\ playerTrail' = loaded.playerTrail
  /\ playerIcon' = INITIAL_PLAYER_POS
  /\ zones' = <<>>
  /\ caches' = EmptyMap
  /\ popups' = {}
  /\ locationCache' = EmptyMap
  /\ watchId' = 0
  /\ UNCHANGED gameState

\* ------------------------------------------------------------------------
\* The earlier revision: Cache objects, coinIdCounter, rectangles redrawn on
\* every pass
\* ------------------------------------------------------------------------
\* LocationFactory.getLocation: the cache after a lookup of (i, j)
getLocation(lc, i, j) ==
  IF cacheKey(i, j) \in DOMAIN lc
    THEN lc
    ELSE lc @@ (cacheKey(i, j) :>
                  <<NULL_ISLAND[1] + i * GRID_SIZE,
                    NULL_ISLAND[2] + j * GRID_SIZE>>)

\* createCoins that numbers the coins of every call from 0
createCoins_fromZero(i, j, count, counter) ==
  [coins |-> [k \in 1..count |-> [i |-> i, j |-> j, serial |-> k - 1]],
   coinIdCounter |-> counter + count]

\* createCoins(i, j, count) while coinIdCounter is counter: the coins it
\* returns and coinIdCounter afterwards
createCoins(i, j, count, counter) ==
  [coins |-> [k \in 1..count |->
                [i |-> i, j |-> j, serial |-> counter + k - 1]],
   coinIdCounter |-> counter + count]

\* new Cache(i, j) while coinIdCounter is counter, r being the value
\* Math.random() returns
Cache(i, j, r, counter) ==
  [i |-> i, j |-> j,
   coins |-> createCoins(i, j, rollCoins(r), counter).coins,
   memento |-> NoMemento]

\* Cache.toMemento: the JSON text of the coin array, one <<i, j, serial>> per
\* object of the text
toMemento(cache) ==
  [k \in DOMAIN cache.coins |->
     <<cache.coins[k].i, cache.coins[k].j, cache.coins[k].serial>>]

\* fromMemento that adds the coins of the memento to the ones the cache holds
fromMemento_merge(cache, memento) ==
  [cache EXCEPT !.coins =
     cache.coins \o
     [k \in DOMAIN memento |->
        [i |-> memento[k][1], j |-> memento[k][2], serial |-> memento[k][3]]]]

\* Cache.fromMemento: the cache afterwards
fromMemento(cache, memento) ==
  [cache EXCEPT !.coins =
     [k \in DOMAIN memento |->
        [i |-> memento[k][1], j |-> memento[k][2], serial |-> memento[k][3]]]]

\* get coinCount()
Cache_coinCount(cache) == Len(cache.coins)

\* Cache.collectCoins: the cache afterwards and the number returned
Cache_collectCoins(cache) ==
  [cache |-> [cache EXCEPT !.coins = <<>>],
   collectedCoins |-> Len(cache.coins)]

\* Cache.addCoins
Cache_addCoins(cache, newCoins) ==
  [cache EXCEPT !.coins = cache.coins \o newCoins]

\* cache.memento = cache.toMemento()
saveMemento(cache) ==
  [cache EXCEPT !.memento = [defined |-> TRUE, text |-> toMemento(cache)]]

\* what spawnCache and the regeneration pass read and write
Earlier == [cacheObjects |-> cacheObjects, cacheMap |-> cacheMap,
            rectangles |-> rectangles, locationFactory |-> locationFactory,
            coinIdCounter |-> coinIdCounter]

\* spawnCache that constructs a Cache whether or not the cell has one
spawnCache_always(w, i, j, r) ==
  LET key  == cacheKey(i, j)
      objs == Append(w.cacheObjects, Cache(i, j, r, w.coinIdCounter))
      cm   == [k \in DOMAIN w.cacheMap \cup {key} |->
                 IF k = key THEN Len(objs) ELSE w.cacheMap[k]]
      lf   == getLocation(getLocation(w.locationFactory, i, j), i + 1, j + 1)
  IN  [cacheObjects |-> objs, cacheMap |-> cm,
       rectangles |-> w.rectangles \cup {cm[key]},
       locationFactory |-> lf,
       coinIdCounter |-> w.coinIdCounter + rollCoins(r)]

\* spawnCache(i, j); r is consumed by the constructor when a Cache is built
spawnCache(w, i, j, r) ==
  LET key  == cacheKey(i, j)
      hit  == key \in DOMAIN w.cacheMap
      objs == IF hit THEN w.cacheObjects
                     ELSE Append(w.cacheObjects,
                                 Cache(i, j, r, w.coinIdCounter))
      cm   == IF hit THEN w.cacheMap ELSE w.cacheMap @@ (key :> Len(objs))
      lf   == getLocation(getLocation(w.locationFactory, i, j), i + 1, j + 1)
  IN  [cacheObjects |-> objs, cacheMap |-> cm,
       rectangles |-> w.rectangles \cup {cm[key]},
       locationFactory |-> lf,
       coinIdCounter |-> IF hit THEN w.coinIdCounter
                                ELSE w.coinIdCounter + rollCoins(r)]

\* Math.floor((lat - NULL_ISLAND.lat) / GRID_SIZE), same for lng
playerCell(playerPos) ==
  <<(playerPos[1] - NULL_ISLAND[1]) \div GRID_SIZE,
    (playerPos[2] - NULL_ISLAND[2]) \div GRID_SIZE>>

RECURSIVE spawnEach(_, _, _)
\* spawnCache for the cells of the sequence cells, in order
spawnEach(w, cells, rnd) ==
  IF cells = <<>>
    THEN w
    ELSE spawnEach(spawnCache(w, Head(cells)[1], Head(cells)[2],
                              rollDraw(rnd, Head(cells))),
                   Tail(cells), rnd)

\* regenerateCachesAround: every Rectangle layer is removed, then the cells
\* the loops visit whose draw is below SPAWN_RATE get spawnCache
regenerateCachesAround(w, playerPos, rnd) ==
  spawnEach([w EXCEPT !.rectangles = {}],
            SelectSeq(loopSeq(playerCell(playerPos), CACHE_RADIUS),
                      LAMBDA c : spawnDraw(rnd, c) < SPAWN_RATE),
            rnd)

movePlayer(dx, dy) ==
  LET newPosition == <<playerMarker[1] + dx, playerMarker[2] + dy>> IN
  /\ EarlierStep
  /\ InBounds(newPosition)
  /\ \E rnd \in Randoms([caches |-> cacheMap],
                        loopCells(playerCell(newPosition), CACHE_RADIUS),
                        SPAWN_RATE, MaxZones - Len(cacheObjects)) :
       LET w == regenerateCachesAround(Earlier, newPosition, rnd) IN
       /\ playerMarker' = newPosition
       /\ cacheObjects' = w.cacheObjects
       /\ cacheMap' = w.cacheMap
       /\ rectangles' = w.rectangles
       /\ locationFactory' = w.locationFactory
       /\ coinIdCounter' = w.coinIdCounter
       /\ UNCHANGED <<totalPoints, coinCount>>

\* the four movement buttons
MovePlayer ==
  \E d \in {<<moveStep, 0>>, <<-moveStep, 0>>, <<0, -moveStep>>,
            <<0, moveStep>>} :
    movePlayer(d[1], d[2])

\* the variables the popup handlers write
EarlierGame == [totalPoints |-> totalPoints, coinCount |-> coinCount,
                coinIdCounter |-> coinIdCounter,
                cacheObjects |-> cacheObjects]

\* the click handler of #collectBtn in a popup bound to the Cache c
collectBtnHandler(g, c) ==
  IF Cache_coinCount(g.cacheObjects[c]) > 0
    THEN LET r == Cache_collectCoins(g.cacheObjects[c]) IN
         [g EXCEPT !.coinCount = g.coinCount + r.collectedCoins,
                   !.cacheObjects[c] = saveMemento(r.cache)]
    ELSE g

\* the deposit handler without the test of coinCount
depositBtnHandler_unguarded(g, c) ==
  LET cache == g.cacheObjects[c]
      made  == createCoins(cache.i, cache.j, g.coinCount, g.coinIdCounter)
  IN  [g EXCEPT !.cacheObjects[c] =
                   saveMemento(Cache_addCoins(cache, made.coins)),
                !.coinIdCounter = made.coinIdCounter,
                !.totalPoints = g.totalPoints + g.coinCount,
                !.coinCount = 0]

\* the click handler of #depositBtn in a popup bound to the Cache c
depositBtnHandler(g, c) ==
  IF g.coinCount > 0
    THEN LET cache == g.cacheObjects[c]
             made  == createCoins(cache.i, cache.j, g.coinCount,
                                  g.coinIdCounter)
         IN  [g EXCEPT !.cacheObjects[c] =
                          saveMemento(Cache_addCoins(cache, made.coins)),
                       !.coinIdCounter = made.coinIdCounter,
                       !.totalPoints = g.totalPoints + g.coinCount,
                       !.coinCount = 0]
    ELSE g

collectBtn(c) ==
  /\ EarlierStep
  /\ c \in rectangles
  /\ LET g == collectBtnHandler(EarlierGame, c) IN
       /\ totalPoints' = g.totalPoints
       /\ coinCount' = g.coinCount
       /\ coinIdCounter' = g.coinIdCounter
       /\ cacheObjects' = g.cacheObjects
  /\ UNCHANGED <<playerMarker, cacheMap, rectangles, locationFactory>>

depositBtn(c) ==
  /\ EarlierStep
  /\ c \in rectangles
  /\ coinIdCounter + coinCount <= MaxSerial
  /\ LET g == depositBtnHandler(EarlierGame, c) IN
       /\ totalPoints' = g.totalPoints
       /\ coinCount' = g.coinCount
       /\ coinIdCounter' = g.coinIdCounter
       /\ cacheObjects' = g.cacheObjects
  /\ UNCHANGED <<playerMarker, cacheMap, rectangles, locationFactory>>

CollectBtn == \E c \in rectangles : collectBtn(c)
DepositBtn == \E c \in rectangles : depositBtn(c)

\* the "resetGame" button of the earlier revision
resetStats ==
  /\ EarlierStep
  /\ totalPoints' = 0
  /\ coinCount' = 0
  /\ UNCHANGED <<coinIdCounter, playerMarker, cacheObjects, cacheMap,
                 rectangles, locationFactory>>

Next ==
  \/ MoveNorth
  \/ MoveSouth
  \/ MoveWest
  \/ MoveEast
  \/ ToggleSensor
  \/ handlePositionUpdate
  \/ geolocationError
  \/ CollectCoins
  \/ DepositCoins
  \/ ResetGame
  \/ Reload
  \/ MovePlayer
  \/ CollectBtn
  \/ DepositBtn
  \/ resetStats

Spec == Init /\ [][Next]_vars
\* ------------------------------------------------------------------------
\* One or two regeneration passes of builds with other radii and spawn
\* probabilities, from the initial state
\* ------------------------------------------------------------------------
\* largest radius
MaxRadius == 1
Radii == 0..MaxRadius
\* never, the program's probability, always
Probabilities == {0, SPAWN_PROBABILITY, RandomScale}
\* positions the player is moved to
PassPositions == {<<0, 0>>, <<2, 0>>, <<-1, -1>>, <<1, 3>>}
\* zones one pass may construct: a full square
PassBudget == (2 * MaxRadius + 1) * (2 * MaxRadius + 1)

RegenerationPass ==
  \E R \in Radii, p \in Probabilities, position \in PassPositions :
    movePlayerWith(position[1], position[2], R, p, PassBudget)

SpecRegen == Init /\ [][RegenerationPass]_vars

\* ------------------------------------------------------------------------
\* The page loaded on any item of localStorage, with JavaScript values:
\* <<"number", n>>, undefined, and a string that is no number
\* ------------------------------------------------------------------------
Num(n) == <<"number", n>>
Undefined == <<"undefined", 0>>
Str == <<"string", 0>>

\* values a field of a stored object may hold (Undefined: the field is
\* missing)
StoredValues == {Undefined, Str, Num(0), Num(1)}
\* values of the field playerTrail: missing, a number, an array of positions
StoredTrails ==
  {[type |-> "undefined", elems |-> <<>>],
   [type |-> "number", elems |-> <<>>],
   [type |-> "array", elems |-> <<>>],
   [type |-> "array", elems |-> <<[lat |-> 2, lng |-> 0]>>]}

\* what localStorage.getItem("gameState") may return: null, a text that is
\* no JSON, or the JSON text of an object
StoredItems ==
  {[kind |-> "null"], [kind |-> "text"]}
    \cup [kind : {"object"}, totalScore : StoredValues,
          collectedCoins : StoredValues, totalMoves : StoredValues,
          playerTrail : StoredTrails]

\* the player state the module initialises
Defaults == [totalScore |-> Num(0), collectedCoins |-> Num(0),
             totalMoves |-> Num(0), playerTrail |-> <<>>]

\* loadSavedGame run on item while the player state is g (with a field
\* threw): the player state afterwards, threw telling whether it ended in an
\* exception (JSON.parse of a text that is no JSON; savedTrail.map when
\* savedTrail is no array, after the three numbers were assigned)
loadStored(item, g) ==
  IF item.kind = "null" THEN [g EXCEPT !.threw = FALSE]
  ELSE IF item.kind = "text" THEN [g EXCEPT !.threw = TRUE]
  ELSE LET assigned == [g EXCEPT !.totalScore = item.totalScore,
                                 !.collectedCoins = item.collectedCoins,
                                 !.totalMoves = item.totalMoves]
       IN  IF item.playerTrail.type = "array"
             THEN [assigned EXCEPT
                     !.threw = FALSE,
                     !.playerTrail =
                        [k \in 1..Len(item.playerTrail.elems) |->
                           latLng(item.playerTrail.elems[k])]]
             ELSE [assigned EXCEPT !.threw = TRUE]

\* the page is loaded while localStorage holds gameState
LoadStoredItem ==
  LET loaded == loadStored(gameState, Defaults @@ [threw |-> FALSE]) IN
  /\ FinalStep
  /\ totalScore' = loaded.totalScore
  /\ collectedCoins' = loaded.collectedCoins
  /\ totalMoves' = loaded.totalMoves
  /\ playerTrail' = loaded.playerTrail
  /\ playerIcon' = INITIAL_PLAYER_POS
  /\ zones' = <<>>
  /\ caches' = EmptyMap
  /\ popups' = {}
  /\ locationCache' = EmptyMap
  /\ watchId' = 0
  /\ UNCHANGED gameState

\* something else writes or removes the item
StoreItem ==
  /\ FinalStep
  /\ gameState' \in StoredItems
  /\ UNCHANGED <<totalScore, collectedCoins, playerTrail, totalMoves,
                 playerIcon, zones, caches, popups, locationCache, watchId>>

InitLoad ==
  /\ revision = "final"
  /\ totalPoints = 0
  /\ coinCount = 0
  /\ coinIdCounter = 0
  /\ playerMarker = PLAYER_START
  /\ cacheObjects = <<>>
  /\ cacheMap = EmptyMap
  /\ rectangles = {}
  /\ locationFactory = EmptyMap
  /\ totalScore = Defaults.totalScore
  /\ collectedCoins = Defaults.collectedCoins
  /\ playerTrail = Defaults.playerTrail
  /\ totalMoves = Defaults.totalMoves
  /\ playerIcon = INITIAL_PLAYER_POS
  /\ zones = <<>>
  /\ caches = EmptyMap
  /\ popups = {}
  /\ locationCache = EmptyMap
  /\ gameState \in StoredItems
  /\ watchId = 0

SpecLoad == InitLoad /\ [][LoadStoredItem \/ StoreItem]_vars

\* ========================================================================
\* Properties
\* ========================================================================
\* C1: no two coins produced by generateCoins carry the same id, whether they
\* were minted when a CacheZone was constructed or on deposit, for the same
\* cell or for different cells.
C1_UniqueSerials ==
  \A z1 \in 1..Len(zones), z2 \in 1..Len(zones) :
    \A k1 \in DOMAIN zones[z1].storedCoins, k2 \in DOMAIN zones[z2].storedCoins :
      (z1 # z2 \/ k1 # k2)
        => zones[z1].storedCoins[k1].id # zones[z2].storedCoins[k2].id

\* the most calls of createCache for one cell that C2 looks at
MaxCalls == 3

RECURSIVE createCacheTimes(_, _, _)
\* createCache called for the cell c once per element of rs, which holds the
\* values Math.random() would return to the constructor
createCacheTimes(w, c, rs) ==
  IF rs = <<>> THEN w
  ELSE createCacheTimes(createCache(w, c[1], c[2], Head(rs)), c, Tail(rs))

RandomSeqs(n) == UNION {[1..m -> RandomValues] : m \in 1..n}

RECURSIVE spawnCacheTimes(_, _, _)
\* spawnCache called for the cell c once per element of rs
spawnCacheTimes(w, c, rs) ==
  IF rs = <<>> THEN w
  ELSE spawnCacheTimes(spawnCache(w, c[1], c[2], Head(rs)), c, Tail(rs))

\* C2: from every reachable state, N >= 1 calls of createCache (of spawnCache
\* in the earlier revision) for one cell leave one zone registered under it:
\* the zone the first call left there, holding the coins it held after the
\* first call; the later calls construct no zone, mint no coin and change
\* neither the registry nor any zone.
C2_CreateCacheIdempotent ==
  \A c \in SpawnCells \cup DOMAIN caches \cup DOMAIN cacheMap :
    \A rs \in RandomSeqs(MaxCalls) :
      /\ LET first == createCache(World, c[1], c[2], Head(rs))
             last  == createCacheTimes(World, c, rs)
             key   == cacheKey(c[1], c[2])
         IN  /\ key \in DOMAIN last.caches
             /\ last.caches = first.caches
             /\ last.zones = first.zones
             /\ Len(last.zones) <= Len(zones) + 1
             /\ key \in DOMAIN caches => last.zones = zones
      /\ LET first == spawnCache(Earlier, c[1], c[2], Head(rs))
             last  == spawnCacheTimes(Earlier, c, rs)
             key   == cacheKey(c[1], c[2])
         IN  /\ key \in DOMAIN last.cacheMap
             /\ last.cacheMap = first.cacheMap
             /\ last.cacheObjects = first.cacheObjects
             /\ last.coinIdCounter = first.coinIdCounter
             /\ Len(last.cacheObjects) <= Len(cacheObjects) + 1
             /\ key \in DOMAIN cacheMap => last.cacheObjects = cacheObjects

\* a registered zone that was emptied, and calling createCache for its cell
\* with a draw that would roll two coins leaves it empty
C2_Witness ==
  \E c \in DOMAIN caches :
    /\ coins(zones[caches[c]]) = 0
    /\ totalMoves = 2
    /\ createCacheTimes(World, c, <<HighestDraw, HighestDraw>>).zones = zones

MoveStep ==
  MoveNorth \/ MoveSouth \/ MoveWest \/ MoveEast \/ handlePositionUpdate

\* C3: a movement event changes neither the score nor the carried coin count
\* nor any zone object that existed before it; every cell registered before
\* it stays registered with the same coin count, and what it adds to the
\* registry are zones it constructed.
C3_MoveFrame ==
  [][MoveStep =>
       /\ totalScore' = totalScore
       /\ collectedCoins' = collectedCoins
       /\ watchId' = watchId
       /\ \A c \in DOMAIN caches :
            /\ c \in DOMAIN caches'
            /\ coins(zones'[caches'[c]]) = coins(zones[caches[c]])
       /\ \A z \in 1..Len(zones) : z <= Len(zones') /\ zones'[z] = zones[z]
       /\ \A c \in DOMAIN caches' \ DOMAIN caches : caches'[c] > Len(zones)
       /\ playerTrail' = Append(playerTrail, playerIcon')
       /\ totalMoves' = totalMoves + 1
    ]_vars

\* the second move of a trail was made while carrying the coins of a zone
\* that is still registered, and still empty
C3_Witness ==
  /\ Len(playerTrail) = 2
  /\ gameState.saved /\ gameState.collectedCoins > 0
  /\ collectedCoins = gameState.collectedCoins
  /\ \E c \in DOMAIN caches : coins(zones[caches[c]]) = 0

\* C4: with n > 0 carried coins, the deposit handler of a popup bound to a
\* zone holding m coins leaves the zone with m + n coins, the carried count
\* at 0 and the score n higher.
C4_Deposit ==
  [][\A z \in popups :
       (depositCoins(z) /\ collectedCoins > 0) =>
         /\ coins(zones'[z]) = coins(zones[z]) + collectedCoins
         /\ collectedCoins' = 0
         /\ totalScore' = totalScore + collectedCoins
    ]_vars

\* a zone holds three coins, more than a constructor rolls here: one or two
\* coins were deposited on top of the ones it held
C4_Witness ==
  /\ totalScore > 0
  /\ collectedCoins = 0
  /\ \E z \in popups : coins(zones[z]) = 3

\* C5: the collect handler of a popup bound to a zone holding m coins takes m
\* from retrieveCoins, leaves the zone with 0 coins and adds m to the carried
\* count; run again right afterwards it gets 0 and changes nothing.
C5_Collect ==
  [][\A z \in popups :
       collectCoins(z) =>
         LET m == coins(zones[z])
             after == [totalScore |-> totalScore',
                       collectedCoins |-> collectedCoins', zones |-> zones']
         IN  /\ retrieveCoins(zones[z]).collected = m
             /\ coins(zones'[z]) = 0
             /\ collectedCoins' = collectedCoins + m
             /\ retrieveCoins(zones'[z]).collected = 0
             /\ collectHandler(after, z) = after
    ]_vars

\* two coins are carried that no snapshot and no deposit accounts for, and a
\* zone is empty
C5_Witness ==
  /\ collectedCoins = 2
  /\ totalScore = 0
  /\ gameState.saved /\ gameState.collectedCoins = 0
  /\ \E z \in popups : coins(zones[z]) = 0

\* C6 as claimed: from every reachable state, collect and then deposit on a
\* zone holding K > 0 coins leave it with K coins.
C6_RoundTripAnyState ==
  \A z \in popups :
    coins(zones[z]) > 0 =>
      coins(depositHandler(collectHandler(Game, z), z).zones[z])
        = coins(zones[z])

\* C6, amended: from every reachable state in which no coin is carried,
\* collect and then deposit on a zone holding K > 0 coins leave it with K
\* coins, and the score K higher.
C6_RoundTripEmptyHanded ==
  \A z \in popups :
    (coins(zones[z]) > 0 /\ collectedCoins = 0) =>
      LET g == depositHandler(collectHandler(Game, z), z)
      IN  /\ coins(g.zones[z]) = coins(zones[z])
          /\ g.collectedCoins = 0
          /\ g.totalScore = totalScore + coins(zones[z])

\* the only zone built since the page loaded holds two coins again after the
\* two coins collected from it were deposited
C6_Witness ==
  /\ Len(zones) = 1
  /\ coins(zones[1]) = 2
  /\ collectedCoins = 0
  /\ totalScore = 2
  /\ gameState.saved /\ gameState.totalScore = 0 /\ gameState.collectedCoins = 0

\* C7 as claimed: in every step the score does not decrease and changes only
\* in a deposit, the carried count increases only in a collect and is zero
\* after a deposit.
C7_ScoreMonotoneAllEvents ==
  [][/\ totalScore' >= totalScore
     /\ totalScore' # totalScore => DepositCoins
     /\ collectedCoins' > collectedCoins => CollectCoins
     /\ DepositCoins => collectedCoins' = 0
    ]_vars

\* C7, amended: in every step that is neither a confirmed reset nor a page
\* load the score does not decrease and changes only in a deposit; the
\* carried count increases only in a collect, decreases only in a deposit
\* and is zero after a deposit.
C7_ScoreMonotone ==
  [][(~resetGame(TRUE) /\ ~Reload) =>
       /\ totalScore' >= totalScore
       /\ totalScore' # totalScore => DepositCoins
       /\ collectedCoins' > collectedCoins => CollectCoins
       /\ collectedCoins' < collectedCoins => DepositCoins
       /\ DepositCoins => collectedCoins' = 0
    ]_vars

\* the score rose after the last snapshot while coins are carried again
C7_Witness ==
  /\ gameState.saved
  /\ totalScore > gameState.totalScore
  /\ collectedCoins > 0

\* C9: a confirmed reset puts the marker back at the initial position, sets
\* score and carried coins to 0, empties trail and registry and discards the
\* snapshot.
C9_ResetRestoresInitial ==
  [][resetGame(TRUE) =>
       /\ playerIcon' = INITIAL_PLAYER_POS
       /\ totalScore' = 0
       /\ collectedCoins' = 0
       /\ totalMoves' = 0
       /\ playerTrail' = <<>>
       /\ caches' = EmptyMap
       /\ gameState' = NoSnapshot
    ]_vars

\* C10: every zone a popup is bound to is the zone registered for its cell.
C10_PopupsAreRegistered ==
  \A z \in popups :
    /\ cacheKey(zones[z].x, zones[z].y) \in DOMAIN caches
    /\ caches[cacheKey(zones[z].x, zones[z].y)] = z

\* the cells at Chebyshev distance at most R of the cell c
Square(c, R) ==
  {d \in ((c[1] - R)..(c[1] + R)) \X ((c[2] - R)..(c[2] + R)) : TRUE}

\* C8: a pass with spawn probability 0 leaves registry and zones as they
\* are; a pass with spawn probability 1 and radius R adds exactly the cells
\* of the (2R+1)-sided square around the player's cell, so that on an empty
\* registry it leaves exactly these (2R+1)^2 cells.
C8_RegenerationBoundaries ==
  [][\A R \in Radii, position \in PassPositions :
       /\ movePlayerWith(position[1], position[2], R, 0, PassBudget)
            => caches' = caches /\ zones' = zones
       /\ movePlayerWith(position[1], position[2], R, RandomScale, PassBudget)
            => /\ DOMAIN caches' = DOMAIN caches \cup Square(cellOf(position), R)
               /\ DOMAIN caches = {}
                    => /\ DOMAIN caches' = Square(cellOf(position), R)
                       /\ Cardinality(DOMAIN caches')
                            = (2 * R + 1) * (2 * R + 1)
    ]_vars

\* after one pass at the origin the registry holds the 9 cells from (-1,-1)
\* to (1,1)
C8_Witness ==
  /\ playerTrail = <<INITIAL_POSITION>>
  /\ DOMAIN caches = (-1..1) \X (-1..1)
  /\ Len(zones) = 9

\* C11: when the page is loaded on the snapshot saveGameProgress writes of
\* the current state, the load restores the score, the carried coin count,
\* the move count and the trail that were saved, and a registry with the
\* cells and the coin counts it had when the snapshot was written.
C11_SaveLoadRoundTrip ==
  [][(Reload /\ gameState = saveGameProgress(totalScore, collectedCoins,
                                             totalMoves, playerTrail))
       => /\ totalScore' = totalScore
          /\ collectedCoins' = collectedCoins
          /\ totalMoves' = totalMoves
          /\ playerTrail' = playerTrail
          /\ DOMAIN caches' = DOMAIN caches
          /\ \A c \in DOMAIN caches \cap DOMAIN caches' :
               coins(zones'[caches'[c]]) = coins(zones[caches[c]])
    ]_vars

\* a stored item that is no snapshot the game writes: a text that is no
\* JSON, or an object with a field missing or of the wrong type
Malformed(item) ==
  \/ item.kind = "text"
  \/ /\ item.kind = "object"
     /\ \/ item.totalScore[1] # "number"
        \/ item.collectedCoins[1] # "number"
        \/ item.totalMoves[1] # "number"
        \/ item.playerTrail.type # "array"

\* C12: a page load on a malformed item ends without an exception and leaves
\* score, carried coins and move count at 0 and the trail empty.
C12_MalformedFallsBack ==
  [][(LoadStoredItem /\ Malformed(gameState))
       => /\ ~loadStored(gameState, Defaults @@ [threw |-> FALSE]).threw
          /\ totalScore' = Defaults.totalScore
          /\ collectedCoins' = Defaults.collectedCoins
          /\ totalMoves' = Defaults.totalMoves
          /\ playerTrail' = Defaults.playerTrail
    ]_vars

\* C13: the error callback of the geolocation watch leaves position, score,
\* carried coins, trail, move count, zones, registry and snapshot as they
\* are, and the watch id as well: it neither stops the watch nor asks for a
\* new one.
C13_GeolocationErrorFrame ==
  [][geolocationError => UNCHANGED vars]_vars

\* the watch is set while a game with a trail, a snapshot and a registered
\* zone is going on: the state an error may be reported in
C13_Witness ==
  /\ watchId # 0
  /\ Len(playerTrail) > 0
  /\ gameState.saved
  /\ DOMAIN caches # {}
  /\ ENABLED geolocationError

\* C14: in both revisions the collect handler of a popup bound to an empty
\* cache, and the deposit handler while no coin is carried, change nothing:
\* the handler returns the state it was given (score, carried count, the
\* coins and the memento of every cache, coinIdCounter), and the step leaves
\* every variable as it is.
C14_NoOps ==
  [][/\ \A z \in popups :
          /\ coins(zones[z]) = 0 => collectHandler(Game, z) = Game
          /\ collectedCoins = 0 => depositHandler(Game, z) = Game
          /\ (collectCoins(z) /\ coins(zones[z]) = 0) => UNCHANGED vars
          /\ (depositCoins(z) /\ collectedCoins = 0) => UNCHANGED vars
     /\ \A c \in rectangles :
          /\ Cache_coinCount(cacheObjects[c]) = 0
               => collectBtnHandler(EarlierGame, c) = EarlierGame
          /\ coinCount = 0 => depositBtnHandler(EarlierGame, c) = EarlierGame
          /\ (collectBtn(c) /\ Cache_coinCount(cacheObjects[c]) = 0)
               => UNCHANGED vars
          /\ (depositBtn(c) /\ coinCount = 0) => UNCHANGED vars
    ]_vars

\* in the earlier revision nothing is carried, one cache with a rectangle was
\* emptied and another one was never touched by a handler
C14_Witness ==
  /\ coinCount = 0
  /\ \E c \in rectangles : Cache_coinCount(cacheObjects[c]) = 0
  /\ \E c \in rectangles : ~cacheObjects[c].memento.defined

\* cells looked up in C15
LookupCells == {<<0, 0>>, <<1, 1>>, <<4, 0>>, <<-4, 2>>}

\* C15: in every reachable state, for cells c and d, a lookup of c returns
\* origin + c * grid step; after a lookup of d a second lookup of c returns
\* the same coordinate and stores nothing; a lookup adds at most the entry of
\* its cell and changes no entry; every stored entry holds the coordinate of
\* its cell; and no step but a page load removes or changes an entry.  The
\* same for getLocation of the earlier revision.
C15_PositionsStable ==
  [][/\ \A c \in LookupCells, d \in LookupCells :
          /\ LET l1 == getPosition(locationCache, c[1], c[2])
                 l2 == getPosition(l1, d[1], d[2])
                 l3 == getPosition(l2, c[1], c[2])
             IN  /\ l1[c] = <<INITIAL_POSITION[1] + c[1] * GRID_STEP,
                              INITIAL_POSITION[2] + c[2] * GRID_STEP>>
                 /\ l3[c] = l1[c]
                 /\ l3 = l2
                 /\ DOMAIN l1 = DOMAIN locationCache \cup {c}
                 /\ \A k \in DOMAIN locationCache : l3[k] = locationCache[k]
          /\ LET l1 == getLocation(locationFactory, c[1], c[2])
                 l2 == getLocation(l1, d[1], d[2])
                 l3 == getLocation(l2, c[1], c[2])
             IN  /\ l1[c] = <<NULL_ISLAND[1] + c[1] * GRID_SIZE,
                              NULL_ISLAND[2] + c[2] * GRID_SIZE>>
                 /\ l3[c] = l1[c]
                 /\ l3 = l2
                 /\ DOMAIN l1 = DOMAIN locationFactory \cup {c}
                 /\ \A k \in DOMAIN locationFactory : l3[k] = locationFactory[k]
     /\ \A k \in DOMAIN locationCache :
          locationCache[k] = <<INITIAL_POSITION[1] + k[1] * GRID_STEP,
                               INITIAL_POSITION[2] + k[2] * GRID_STEP>>
     /\ \A k \in DOMAIN locationFactory :
          locationFactory[k] = <<NULL_ISLAND[1] + k[1] * GRID_SIZE,
                                 NULL_ISLAND[2] + k[2] * GRID_SIZE>>
     /\ ~Reload =>
          /\ \A k \in DOMAIN locationCache :
               k \in DOMAIN locationCache' /\ locationCache'[k] = locationCache[k]
          /\ \A k \in DOMAIN locationFactory :
               /\ k \in DOMAIN locationFactory'
               /\ locationFactory'[k] = locationFactory[k]
    ]_vars

\* two moves have looked up the corners of two caches: the second move looked
\* up cells the first one had stored
C15_Witness ==
  /\ Len(playerTrail) = 2
  /\ DOMAIN locationCache = {<<0, 0>>, <<1, 1>>, <<4, 0>>, <<5, 1>>}
  /\ Len(zones) = 2
  /\ playerIcon = <<2, 0>>

\* largest count createCoins is called with in C16
MaxCount == 3

\* C16: in every reachable state of the earlier revision, createCoins(i, j,
\* count) for count in 0..MaxCount returns count coins of origin (i, j) whose
\* serials are coinIdCounter, coinIdCounter + 1, ... in this order, and
\* leaves coinIdCounter count higher (for count = 0: no coin, the counter as
\* it is); every stored coin has a serial below coinIdCounter; and no step
\* lowers coinIdCounter, the reset button leaving it as it is.
C16_SerialsConsecutive ==
  [][/\ \A c \in LookupCells, count \in 0..MaxCount :
          LET made == createCoins(c[1], c[2], count, coinIdCounter) IN
          /\ Len(made.coins) = count
          /\ \A k \in 1..Len(made.coins) :
               /\ made.coins[k].i = c[1]
               /\ made.coins[k].j = c[2]
               /\ made.coins[k].serial = coinIdCounter + k - 1
               /\ k > 1 => made.coins[k].serial > made.coins[k - 1].serial
          /\ made.coinIdCounter = coinIdCounter + count
          /\ made.coinIdCounter >= coinIdCounter
          /\ count = 0 =>
               made.coins = <<>> /\ made.coinIdCounter = coinIdCounter
     /\ \A c \in 1..Len(cacheObjects) :
          \A k \in 1..Len(cacheObjects[c].coins) :
            cacheObjects[c].coins[k].serial < coinIdCounter
     /\ coinIdCounter' >= coinIdCounter
     /\ resetStats => coinIdCounter' = coinIdCounter
    ]_vars

\* the one cache holds the coin with serial 2, minted by the second deposit,
\* and the points were reset afterwards while coinIdCounter stayed at 3
C16_Witness ==
  /\ Len(cacheObjects) = 1
  /\ coinIdCounter = 3
  /\ totalPoints = 0
  /\ coinCount = 0
  /\ Len(cacheObjects[1].coins) = 1
  /\ cacheObjects[1].coins[1].serial = 2

\* C17: for all Cache objects a and b of a reachable state, a.fromMemento of
\* a.toMemento() leaves a as it is; b.fromMemento(a.toMemento()) leaves b
\* with exactly the coin sequence of a (origins and serials, in order) and
\* with its own cell; and a memento a handler stored restores the coins the
\* cache holds.
C17_MementoRoundTrip ==
  \A a \in 1..Len(cacheObjects), b \in 1..Len(cacheObjects) :
    LET A == cacheObjects[a]
        B == cacheObjects[b]
        restored == fromMemento(B, toMemento(A))
    IN  /\ fromMemento(A, toMemento(A)) = A
        /\ restored.coins = A.coins
        /\ restored.i = B.i /\ restored.j = B.j
        /\ restored.memento = B.memento
        /\ Len(toMemento(A)) = Len(A.coins)
        /\ A.memento.defined => fromMemento(A, A.memento.text) = A

\* the coin collected from the first cache was deposited in the second one:
\* the first is empty, the second holds two coins, both have a memento
C17_Witness ==
  /\ Len(cacheObjects) = 2
  /\ Len(cacheObjects[1].coins) = 0
  /\ Len(cacheObjects[2].coins) = 2
  /\ cacheObjects[1].memento.defined
  /\ cacheObjects[2].memento.defined

\* every value Math.random() can return, in hundredths: 0.00 .. 0.99
AllRandoms == 0..(RandomScale - 1)

\* C18: whatever Math.random() returns, the constructor of a CacheZone (of a
\* Cache in the earlier revision) leaves the zone with 1 to 5 coins, and
\* every zone a step constructs holds 1 to 5 coins after the step.
C18_InitialCoinsInRange ==
  [][/\ \A r \in AllRandoms : rollCoins(r) \in 1..5
     /\ \A r \in RandomValues \cup {0, RandomScale - 1} :
          /\ coins(CacheZone(0, 0, r)) = rollCoins(r)
          /\ Cache_coinCount(Cache(0, 0, r, coinIdCounter)) = rollCoins(r)
     /\ \A z \in (Len(zones) + 1)..Len(zones') : coins(zones'[z]) \in 1..5
     /\ \A c \in (Len(cacheObjects) + 1)..Len(cacheObjects') :
          Cache_coinCount(cacheObjects'[c]) \in 1..5
    ]_vars

\* the first move constructed two zones, which hold the two coins and the
\* one coin they were constructed with
C18_Witness ==
  /\ totalMoves = 1
  /\ Len(zones) = 2
  /\ coins(zones[1]) = 2
  /\ coins(zones[2]) = 1
  /\ collectedCoins = 0
  /\ totalScore = 0
  /\ watchId = 0

\* C19: a movement event adds to the registry only cells at Chebyshev
\* distance at most CACHE_ZONE_RADIUS of the cell the player moved to, and
\* leaves every registered cell registered with the zone object it had,
\* unchanged; and no step but a confirmed reset and a page load removes a
\* cell from the registry.
C19_PassStaysInSquare ==
  [][/\ MoveStep =>
          /\ DOMAIN caches \subseteq DOMAIN caches'
          /\ (DOMAIN caches' \ DOMAIN caches)
               \subseteq Square(cellOf(playerIcon'), CACHE_ZONE_RADIUS)
          /\ \A c \in DOMAIN caches :
               /\ caches'[c] = caches[c]
               /\ zones'[caches'[c]] = zones[caches[c]]
     /\ (~resetGame(TRUE) /\ ~Reload) => DOMAIN caches \subseteq DOMAIN caches'
    ]_vars

\* the first move went north to the cell (1, 0) and registered the cell
\* (4, 0), at distance 3, and nothing else
C19_Witness ==
  /\ playerTrail = <<<<2, 0>>>>
  /\ DOMAIN caches = {<<4, 0>>}
  /\ cellOf(playerIcon) = <<1, 0>>

\* C20: every button move and every geolocation update is a run of
\* movePlayerTo on the position the marker ends at: the marker is there, the
\* trail is the old one with this position appended (so its last element is
\* the marker's position), the move count is one higher, the registry is the
\* outcome of a pass around this position, and the snapshot written holds
\* the trail and the move count as they are after the event.
C20_MoveCycle ==
  [][MoveStep =>
       /\ movePlayerTo(playerIcon'[1], playerIcon'[2])
       /\ playerTrail' = Append(playerTrail, playerIcon')
       /\ playerTrail'[Len(playerTrail')] = playerIcon'
       /\ totalMoves' = totalMoves + 1
       /\ \A c \in DOMAIN caches' \ DOMAIN caches :
            c \in loopCells(cellOf(playerIcon'), CACHE_ZONE_RADIUS)
       /\ gameState' = saveGameProgress(totalScore', collectedCoins',
                                        totalMoves', playerTrail')
    ]_vars

\* the second position update came from the geolocation watch: the marker
\* and the end of the trail are at the reported position, and the snapshot
\* counts two moves
C20_Witness ==
  /\ watchId # 0
  /\ Len(playerTrail) = 2
  /\ playerIcon \in GeoPositions
  /\ playerTrail[2] = playerIcon
  /\ playerTrail[1] # playerIcon
  /\ gameState.saved
  /\ gameState.totalMoves = 2

\* C21: after every pass of regenerateCachesAround, each Cache of cacheMap
\* whose cell is at distance at most CACHE_RADIUS of the player's cell has a
\* rectangle on the map (the rectangle's popup shows the cell and the coin
\* count of this Cache).
C21_RegisteredInRangeAreDrawn ==
  [][MovePlayer =>
       \A key \in DOMAIN cacheMap' \cap
                    Square(playerCell(playerMarker'), CACHE_RADIUS) :
         cacheMap'[key] \in rectangles'
    ]_vars

\* C22: in every reachable state every coin stored in a zone object carries
\* the cell of this zone, whether it was minted by the constructor or by a
\* deposit, and every registered zone sits under the key of its own cell;
\* the same holds of the Cache objects of the earlier revision.
C22_CoinsCarryZoneCell ==
  /\ \A z \in 1..Len(zones) :
       \A k \in 1..Len(zones[z].storedCoins) :
         /\ zones[z].storedCoins[k].x = zones[z].x
         /\ zones[z].storedCoins[k].y = zones[z].y
  /\ \A c \in DOMAIN caches : <<zones[caches[c]].x, zones[caches[c]].y>> = c
  /\ \A o \in 1..Len(cacheObjects) :
       \A k \in 1..Len(cacheObjects[o].coins) :
         /\ cacheObjects[o].coins[k].i = cacheObjects[o].i
         /\ cacheObjects[o].coins[k].j = cacheObjects[o].j

\* the coins collected at one cell were deposited at another: the zone a is
\* empty, nothing is carried, and the zone b of a different cell holds the
\* coin of its constructor followed by a deposited coin whose id restarts
\* at 0
C22_Witness ==
  \E a, b \in popups :
    /\ <<zones[a].x, zones[a].y>> # <<zones[b].x, zones[b].y>>
    /\ zones[a].x # zones[a].y \/ zones[b].x # zones[b].y
    /\ zones[a].storedCoins = <<>>
    /\ collectedCoins = 0
    /\ totalScore = 1
    /\ Len(zones[b].storedCoins) = 2
    /\ zones[b].storedCoins[2].id = 0

RECURSIVE registryCoins(_, _, _)
\* the sum of the coin counts of the zones registered under the cells cs
registryCoins(cm, zs, cs) ==
  IF cs = {}
    THEN 0
    ELSE LET c == CHOOSE d \in cs : TRUE IN
         coins(zs[cm[c]]) + registryCoins(cm, zs, cs \ {c})

\* C23: a collect and a deposit leave the carried coin count plus the coin
\* counts of all registered zones as it was, and this total changes only in
\* a step that creates a zone (a movement event) or resets the game.
C23_CoinsConserved ==
  [][LET before == collectedCoins + registryCoins(caches, zones, DOMAIN caches)
         after  == collectedCoins' +
                     registryCoins(caches', zones', DOMAIN caches')
     IN  /\ (CollectCoins \/ DepositCoins) => after = before
         /\ after # before => (MoveStep \/ resetGame(TRUE))
    ]_vars

\* C24: whenever a snapshot is stored, its score and its carried coin count
\* are the current score and the current carried coin count.
C24_SnapshotIsCurrent ==
  gameState.saved =>
    /\ gameState.totalScore = totalScore
    /\ gameState.collectedCoins = collectedCoins

\* C25: in every reachable state the move counter is the number of
\* positions in the player trail, and a stored snapshot counts as many
\* moves as its trail has positions.
C25_MovesCountTrail ==
  /\ totalMoves = Len(playerTrail)
  /\ gameState.saved => gameState.totalMoves = Len(gameState.playerTrail)

\* two moves were made and the page was loaded again: the counter and the
\* trail are the two saved ones, and the marker is back at its start, away
\* from the end of the trail
C25_Witness ==
  /\ gameState.saved
  /\ totalMoves = 2
  /\ Len(playerTrail) = 2
  /\ playerIcon = INITIAL_PLAYER_POS
  /\ playerTrail[2] # playerIcon
====
